---- MODULE Spec2Model ----
(***************************************************************************)
(* Model of the terminal event loop of tools/tui/loop.go (type Loop).      *)
(*                                                                         *)
(* The state is the Loop struct, the local variables of Loop.Run and of    *)
(* Loop.dispatch_timers, the position of Run (pc), the clock, and history  *)
(* variables that record what the properties talk about.  An application   *)
(* callback is a position of Run (pc = the callback's name) in which the   *)
(* application may call the exported methods of the loop any number of     *)
(* times before the callback returns nil or an error.                      *)
(*                                                                         *)
(* Loop.timers is a Go slice of pointers.  The range loop of               *)
(* dispatch_timers keeps reading the backing array the slice had when the  *)
(* loop started, so the model keeps the array (timers \o timers_spare),    *)
(* the timer objects by id (tm) and what the range loop reads (scan).      *)
(*                                                                         *)
(* Specifications:                                                         *)
(*   Spec          one Run with terminal input, output and signals         *)
(*   SpecTimers    one Run with timers and the clock, nothing ever ready   *)
(*   SpecTimerOps  AddTimer and RemoveTimer on a loop that is not running  *)
(*   SpecDrain     one Run draining a buffer through a terminal that       *)
(*                 accepts tty_k bytes per write                           *)
(*   SpecTimerWait one Run with timers added before it, output queued by   *)
(*                 the timer callbacks, and readiness waits that may fail  *)
(*   SpecRuns      Run called repeatedly on one instance                   *)
(***************************************************************************)
EXTENDS FiniteSets, Integers, Sequences, TLC

\* ---------------------------------------------------------------- bounds
MaxTime == 2          \* the clock runs over 0..MaxTime
MaxTimers == 3        \* AddTimer is called at most MaxTimers times
MaxBuf == 3           \* the application queues while write_buf holds fewer bytes
MaxOut == 4           \* ... and while fewer bytes than this were queued in all
MaxTokens == 2        \* decoded items the parser delivers per Parse call
MaxSignals == 2       \* signal records handled per read_signals call
MaxRuns == 2          \* calls of Run on the instance (SpecRuns; the other
                      \* specifications follow the first Run only)
MaxDrain == 5         \* bytes in the buffer of the drain scenario

\* ------------------------------------------------------- program constants
SIGNULL == "SIGNULL"
Nil == 0              \* the nil *timer
Forever == -1         \* the timeout of selector.WaitForever
Marker == <<"@", "k", "i", "t", "t", "y", "-", "c", "m", "d">>

Intervals == {0, 1}
QuitCodes == {7}
AppData == {<<"a">>, <<"b">>}
SetStateEscapeCodes == <<"S", "T">>
ResetStateEscapeCodes == <<"R">>
Finalizers == {<<>>, <<"F">>}
Signals == {"SIGINT", "SIGTERM", "SIGTSTP", "SIGHUP", "SIGWINCH", "SIGPIPE"}
Callbacks == {"OnInitialize", "OnKeyEvent", "OnText", "OnResize",
              "OnWriteComplete", "OnRCResponse", "OnReceivedData"}
HandlerSets == {Callbacks, {}}
KeyEvents == [key : {"ctrl+c", "ctrl+z", "a"}, type : {"press", "repeat", "release"},
              Handled : {FALSE}]
DcsPayloads == {Marker \o <<"H", "E", "L", "L", "O">>, Marker, <<"x">> \o Marker,
                <<"@", "k", "i", "t", "t", "y">>, <<>>}
NoEvent == [key |-> "", type |-> "", Handled |-> FALSE]
DrainData == <<"a", "b", "c", "d", "e", "f", "g", "h">>
FdSets == SUBSET {"tty_w", "tty_r", "sig"}

VARIABLES
    pc,               \* position of Run, or "idle" / "crashed"
    result,           \* what the last Run returned ("none" while it runs)
    runs,             \* number of calls of Run so far
    handlers,         \* the callback fields of Loop that are not nil
    tty_k,            \* bytes the terminal accepts per write (0: any number)
    controlling_term, \* TRUE iff Loop.controlling_term is not nil
    keep_going, flush_write_buf, death_signal, exit_code, write_buf,
    timers,           \* Loop.timers: the slice's elements (timer ids, Nil for nil)
    timers_spare,     \* the cells of its backing array between len and cap
    tm,               \* the timer objects the slices point to, by id
    timer_id_counter,
    screen_size,      \* [updated, cells]
    now,              \* the clock behind time.Now()
    finalizer, armed, \* Run: finalizer string; shutdown defer registered
    wreg,             \* Run: write interest registered with the selector
    dnow,             \* Run: now of this iteration, handed to dispatch_timers
    timeout,          \* Run: timeout of the wait of this iteration
    ready,            \* Run: what the selector reported ready
    scan,             \* dispatch_timers: the range loop [arr, shared, len, i]
    updated, remove,  \* dispatch_timers locals
    cur,              \* dispatch_timers: timer whose callback is running
    ev,               \* handle_key_event: the key event
    ntok, nsig,       \* items delivered so far by Parse / read_signals
    tty_out,          \* history: bytes written to the terminal
    hist              \* history record, see HistInit

envVars == <<handlers, tty_k>>
loopVars == <<keep_going, flush_write_buf, death_signal, exit_code>>
timerVars == <<timers, timers_spare, tm, timer_id_counter>>
scanVars == <<scan, updated, remove, cur>>
waitVars == <<wreg, dnow, timeout, ready>>
parseVars == <<ev, ntok, nsig>>
vars == <<pc, result, runs, envVars, controlling_term, loopVars, write_buf, timerVars,
          screen_size, now, finalizer, armed, waitVars, scanVars, parseVars, tty_out,
          hist>>

\* ------------------------------------------------------------ helpers
Min(a, b) == IF a < b THEN a ELSE b
Max(a, b) == IF a > b THEN a ELSE b
Nils(n) == [i \in 1..n |-> Nil]
Take(s, n) == SubSeq(s, 1, n)
Drop(s, n) == SubSeq(s, n + 1, Len(s))
IsPrefix(p, s) == Len(p) <= Len(s) /\ Take(s, Len(p)) = p
Range(s) == {s[i] : i \in 1..Len(s)}
Count(s, x) == Cardinality({i \in 1..Len(s) : s[i] = x})

CallbackPCs == Callbacks \cup {"timer_cb"}
AppPCs == CallbackPCs \cup {"idle"}
Returning == {"shutdown", "restore"}
InScan == pc \in {"scan", "timer_cb"}
NoScan == [arr |-> <<>>, shared |-> FALSE, len |-> 0, i |-> 0]
\* the backing array of self.timers, and whether the range loop of
\* dispatch_timers still reads it
Backing == timers \o timers_spare
Observed == InScan /\ scan.shared
ScanCell(i) == IF scan.shared THEN Backing[i] ELSE scan.arr[i]

\* growth of append for a full slice of pointers (cap below 256)
GrowCap(c) == IF c = 0 THEN 1 ELSE 2 * c

\* sort.SliceStable(self.timers, deadline.Before): stable insertion
RECURSIVE InsertByDeadline(_, _, _)
InsertByDeadline(s, x, obj) ==
    IF s = <<>> THEN <<x>>
    ELSE IF obj[x].deadline < obj[s[Len(s)]].deadline
         THEN InsertByDeadline(Take(s, Len(s) - 1), x, obj) \o <<s[Len(s)]>>
         ELSE s \o <<x>>
RECURSIVE sort_timers_from(_, _, _)
sort_timers_from(done, rest, obj) ==
    IF rest = <<>> THEN done
    ELSE sort_timers_from(InsertByDeadline(done, rest[1], obj), Tail(rest), obj)
sort_timers_skipped(s, obj) == s
sort_timers(s, obj) == sort_timers_from(<<>>, s, obj)
\* the comparison dereferences every element once there are two of them
sort_panics(s) == Len(s) >= 2 /\ Nil \in Range(s)

Sorted(s, obj) == \A i \in 1..Len(s) - 1 : obj[s[i]].deadline <= obj[s[i + 1]].deadline

\* timer.update_deadline
update_deadline(t, at) == [t EXCEPT !.deadline = at + t.interval]

\* write_ignoring_temporary_errors: (n, err) for what unix.Write did
WriteResults == {"n", "zero", "EAGAIN", "EINTR", "EWOULDBLOCK", "EIO"}
Transient == {"EINTR", "EAGAIN", "EWOULDBLOCK"}
write_ignoring_temporary_errors_no_eof(w, n) ==
    IF w \in {"EINTR", "EAGAIN", "EWOULDBLOCK"} THEN [n |-> 0, err |-> "nil"]
    ELSE IF w = "zero" THEN [n |-> 0, err |-> "nil"]
    ELSE IF w = "EIO" THEN [n |-> -1, err |-> "EIO"]
    ELSE [n |-> n, err |-> "nil"]
write_ignoring_temporary_errors(w, n) ==
    IF w \in {"EINTR", "EAGAIN", "EWOULDBLOCK"} THEN [n |-> 0, err |-> "nil"]
    ELSE IF w = "zero" THEN [n |-> 0, err |-> "EOF"]
    ELSE IF w = "EIO" THEN [n |-> -1, err |-> "EIO"]
    ELSE [n |-> n, err |-> "nil"]

\* read_ignoring_temporary_errors: (n, err) for what unix.Read did
ReadResults == {"data", "zero", "EAGAIN", "EINTR", "EWOULDBLOCK", "EIO"}
read_ignoring_temporary_errors(rd) ==
    IF rd \in {"EINTR", "EAGAIN", "EWOULDBLOCK"} THEN [n |-> 0, err |-> "nil"]
    ELSE IF rd = "zero" THEN [n |-> 0, err |-> "EOF"]
    ELSE IF rd = "EIO" THEN [n |-> -1, err |-> "EIO"]
    ELSE [n |-> 1, err |-> "nil"]

\* ---------------------------------------------------------------- history
\* quit: argument of the last Quit of this Run (-1: none); shutdowns,
\* restores: runs of the shutdown defer / of RestoreAndClose in this Run;
\* raw: raw mode was entered; fired: timers whose callback the current
\* dispatch has called; app_handled, key_cb: OnKeyEvent was called for ev and
\* set Handled; rc: payload handed to OnRCResponse; sigs: records handled by
\* the current read_signals; term_sig: an INT, TERM or HUP record was
\* handled; resizes: calls of OnResize; w: what the last write of the main
\* loop did; writes, wc, buf0: write calls, OnWriteComplete calls and the
\* buffer at loop entry, kept when tty_k > 0; wait_failed: a readiness wait
\* of the main loop returned an error; death: the death signal this Run
\* recorded last; ss: what the last ScreenSize() of this Run did ("cached":
\* returned the cache, "fresh": recomputed, "err": returned an error);
\* queued: the bytes written before this Run, followed by the bytes that
\* were in the buffer when it started and by those queued during it, up to
\* the shutdown; dcs: the payload of the DCS that Parse has just handed to
\* handle_dcs; rc_calls: calls of OnRCResponse made for it
HistInit == [quit |-> -1, shutdowns |-> 0, restores |-> 0, raw |-> FALSE,
             fired |-> <<>>, app_handled |-> FALSE, key_cb |-> FALSE,
             rc |-> <<>>, sigs |-> <<>>, term_sig |-> FALSE, resizes |-> 0,
             w |-> "none", writes |-> 0, wc |-> 0, buf0 |-> <<>>,
             wait_failed |-> FALSE, death |-> SIGNULL, ss |-> "none",
             queued |-> <<>>, dcs |-> {}, rc_calls |-> 0]

\* ------------------------------------------------------------------- Init
\* CreateLoop, before any configuration
Init ==
    /\ pc = "idle" /\ result = "none" /\ runs = 0
    /\ handlers \in HandlerSets
    /\ tty_k = 0
    /\ controlling_term = FALSE
    /\ keep_going = FALSE /\ flush_write_buf = FALSE
    /\ death_signal = SIGNULL /\ exit_code = 0
    /\ write_buf = <<>>
    /\ timers = <<>> /\ timers_spare = <<>> /\ tm = <<>> /\ timer_id_counter = 0
    /\ screen_size = [updated |-> FALSE, cells |-> 0]
    /\ now = 0
    /\ finalizer = <<>> /\ armed = FALSE /\ wreg = FALSE /\ dnow = 0
    /\ timeout = 0 /\ ready = {}
    /\ scan = NoScan /\ updated = FALSE /\ remove = {} /\ cur = Nil
    /\ ev = NoEvent /\ ntok = 0 /\ nsig = 0
    /\ tty_out = <<>>
    /\ hist = HistInit

\* ------------------------------------------- methods the application calls
\* Loop.Quit
Quit(code) ==
    /\ pc \in AppPCs
    /\ exit_code' = code
    /\ keep_going' = FALSE
    /\ hist' = [hist EXCEPT !.quit = code]
    /\ UNCHANGED <<pc, result, runs, envVars, controlling_term, flush_write_buf,
                   death_signal, write_buf, timerVars, screen_size, now, finalizer,
                   armed, waitVars, scanVars, parseVars, tty_out>>

\* Loop.queue_write_to_tty
queue_write_to_tty_in_front(buf, data) == data \o buf
queue_write_to_tty(buf, data) == buf \o data

\* Loop.QueueWriteString / Loop.QueueWriteBytes
QueueWriteString(data) ==
    /\ pc \in AppPCs
    /\ Len(write_buf) < MaxBuf
    /\ Len(tty_out) + Len(write_buf) < MaxOut
    /\ write_buf' = queue_write_to_tty(write_buf, data)
    /\ hist' = [hist EXCEPT !.queued = IF pc = "idle" THEN @ ELSE @ \o data]
    /\ UNCHANGED <<pc, result, runs, envVars, controlling_term, loopVars, timerVars,
                   screen_size, now, finalizer, armed, waitVars, scanVars, parseVars,
                   tty_out>>

\* Loop.AddTimer
AddTimer(interval, repeats) ==
    /\ pc \in AppPCs
    /\ timer_id_counter < MaxTimers
    /\ LET id == timer_id_counter + 1
           t == update_deadline([interval |-> interval, deadline |-> 0,
                                 repeats |-> repeats], now)
           obj == Append(tm, t)
           appended == timers \o <<id>>
       IN /\ timer_id_counter' = id
          /\ tm' = obj
          /\ IF timers_spare # <<>>
             THEN /\ timers_spare' = Tail(timers_spare)
                  /\ scan' = scan
             ELSE /\ timers_spare' = Nils(GrowCap(Len(timers)) - Len(appended))
                  /\ scan' = IF Observed
                             THEN [scan EXCEPT !.arr = timers, !.shared = FALSE]
                             ELSE scan
          /\ timers' = sort_timers(appended, obj)
    /\ UNCHANGED <<pc, result, runs, envVars, controlling_term, loopVars, write_buf,
                   screen_size, now, finalizer, armed, waitVars, updated, remove, cur,
                   parseVars, tty_out, hist>>

\* Loop.RemoveTimer
RemoveTimer(id) ==
    /\ pc \in AppPCs
    /\ LET found == {i \in 1..Len(timers) : timers[i] = id}
       IN IF found = {}
          THEN UNCHANGED <<timers, timers_spare>>
          ELSE LET i == CHOOSE j \in found : \A k \in found : j <= k
                   last == timers[Len(timers)]
               IN /\ timers' = Take(timers, i - 1) \o Drop(timers, i)
                  /\ timers_spare' = IF Observed THEN <<last>> \o timers_spare
                                     ELSE Nils(Len(timers_spare) + 1)
    /\ UNCHANGED <<pc, result, runs, envVars, controlling_term, loopVars, write_buf,
                   tm, timer_id_counter, screen_size, now, finalizer, armed, waitVars,
                   scanVars, parseVars, tty_out, hist>>

\* time passes
Tick ==
    /\ pc # "crashed"
    /\ now < MaxTime
    /\ now' = now + 1
    /\ UNCHANGED <<pc, result, runs, envVars, controlling_term, loopVars, write_buf,
                   timerVars, screen_size, finalizer, armed, waitVars, scanVars,
                   parseVars, tty_out, hist>>

\* ------------------------------------------------------------------- Run
\* a return statement of Run (or a panic): the deferred functions run next
Return_without_restore(e) ==
    /\ result' = e
    /\ pc' = IF armed THEN "shutdown" ELSE "idle"
Return(e) ==
    /\ result' = e
    /\ pc' = IF armed THEN "shutdown" ELSE "restore"

\* Run, lines 352-368: the shutdown defer is registered and the death
\* signal and the exit code are reset, after OnInitialize
AfterInit == /\ armed' = TRUE
             /\ death_signal' = SIGNULL
             /\ exit_code' = 0
             /\ pc' = "top"

\* Run fails before the terminal is acquired: os.Pipe or OpenControllingTerm
RunBootFail ==
    /\ pc = "idle" /\ runs < MaxRuns
    /\ runs' = runs + 1
    /\ result' = "boot_err"
    /\ hist' = HistInit
    /\ UNCHANGED <<pc, envVars, controlling_term, loopVars, write_buf, timerVars,
                   screen_size, now, finalizer, armed, waitVars, scanVars, parseVars,
                   tty_out>>

\* Run up to the call of OnInitialize (or to the loop when there is none)
RunBoot(rawok) ==
    /\ pc = "idle" /\ runs < MaxRuns
    /\ runs' = runs + 1
    /\ controlling_term' = TRUE
    /\ finalizer' = <<>>
    /\ hist' = [HistInit EXCEPT !.raw = rawok,
                  !.buf0 = IF tty_k > 0 /\ rawok
                           THEN queue_write_to_tty(write_buf, SetStateEscapeCodes)
                           ELSE <<>>,
                  !.queued = IF rawok
                             THEN tty_out \o write_buf \o SetStateEscapeCodes
                             ELSE <<>>]
    /\ IF ~rawok
       THEN /\ result' = "nil"
            /\ pc' = "restore"
            /\ armed' = FALSE
            /\ UNCHANGED <<loopVars, write_buf>>
       ELSE /\ result' = "none"
            /\ keep_going' = TRUE
            /\ flush_write_buf' = TRUE
            /\ write_buf' = queue_write_to_tty(write_buf, SetStateEscapeCodes)
            /\ IF "OnInitialize" \in handlers
               THEN /\ pc' = "OnInitialize"
                    /\ armed' = FALSE
                    /\ UNCHANGED <<death_signal, exit_code>>
               ELSE AfterInit
    /\ UNCHANGED <<envVars, timerVars, screen_size, now, waitVars, scanVars, parseVars,
                   tty_out>>

\* OnInitialize returns
OnInitializeReturn(fin, err) ==
    /\ pc = "OnInitialize"
    /\ IF err
       THEN /\ Return("cb_err")
            /\ UNCHANGED <<finalizer, armed, death_signal, exit_code>>
       ELSE /\ finalizer' = fin
            /\ result' = result
            /\ AfterInit
    /\ UNCHANGED <<runs, envVars, controlling_term, keep_going, flush_write_buf,
                   write_buf, timerVars, screen_size, now, waitVars, scanVars,
                   parseVars, tty_out, hist>>

\* top of the for loop: the keep_going test, write interest, and the
\* choice between dispatch_timers and WaitForever
LoopTop ==
    /\ pc = "top"
    /\ hist' = [hist EXCEPT !.fired = <<>>]
    /\ IF ~keep_going
       THEN /\ Return("nil")
            /\ UNCHANGED <<wreg, dnow, timeout, scanVars>>
       ELSE /\ result' = result
            /\ wreg' = (Len(write_buf) > 0)
            /\ IF Len(timers) > 0
               THEN /\ dnow' = now
                    /\ scan' = [arr |-> <<>>, shared |-> TRUE, len |-> Len(timers),
                                i |-> 1]
                    /\ updated' = FALSE
                    /\ remove' = {}
                    /\ pc' = "scan"
                    /\ UNCHANGED <<timeout, cur>>
               ELSE /\ timeout' = Forever
                    /\ pc' = "wait"
                    /\ UNCHANGED <<dnow, scanVars>>
    /\ UNCHANGED <<runs, envVars, controlling_term, loopVars, write_buf, timerVars,
                   screen_size, now, finalizer, armed, ready, parseVars, tty_out>>

\* dispatch_timers: one iteration of the range loop up to the callback call
DispatchScan ==
    /\ pc = "scan" /\ scan.i <= scan.len
    /\ LET t == ScanCell(scan.i)
       IN IF dnow > tm[t].deadline
          THEN /\ cur' = t
               /\ pc' = "timer_cb"
               /\ scan' = scan
               /\ hist' = [hist EXCEPT !.fired = Append(@, t)]
          ELSE /\ scan' = [scan EXCEPT !.i = @ + 1]
               /\ UNCHANGED <<cur, pc, hist>>
    /\ UNCHANGED <<result, runs, envVars, controlling_term, loopVars, write_buf,
                   timerVars, screen_size, now, finalizer, armed, waitVars, updated,
                   remove, parseVars, tty_out>>

\* dispatch_timers: the timer callback returns
TimerCbReturn(err) ==
    /\ pc = "timer_cb"
    /\ IF err
       THEN /\ Return("cb_err")
            /\ timers_spare' = Nils(Len(timers_spare))
            /\ UNCHANGED <<tm, scanVars>>
       ELSE /\ result' = result
            /\ pc' = "scan"
            /\ scan' = [scan EXCEPT !.i = @ + 1]
            /\ cur' = Nil
            /\ timers_spare' = timers_spare
            /\ IF tm[cur].repeats
               THEN /\ tm' = [tm EXCEPT ![cur] = update_deadline(@, dnow)]
                    /\ updated' = TRUE
                    /\ remove' = remove
               ELSE /\ remove' = remove \cup {cur}
                    /\ UNCHANGED <<tm, updated>>
    /\ UNCHANGED <<runs, envVars, controlling_term, loopVars, write_buf, timers,
                   timer_id_counter, screen_size, now, finalizer, armed, waitVars,
                   parseVars, tty_out, hist>>

\* capacity after appending k elements one at a time to make([]*timer, m)
RECURSIVE AppendCap(_, _, _)
AppendCap(c, len, k) ==
    IF k = 0 THEN c
    ELSE AppendCap(IF len = c THEN GrowCap(c) ELSE c, len + 1, k - 1)

\* dispatch_timers, lines 528-536: the slice without the fired one-shot
\* timers (make with a negative length panics)
Rebuilt ==
    LET m == Len(timers) - Cardinality(remove)
        kept == SelectSeq(timers, LAMBDA t : t \notin remove)
    IN IF remove = {} THEN [panic |-> FALSE, timers |-> timers, cap |-> Len(Backing)]
       ELSE IF m < 0 THEN [panic |-> TRUE, timers |-> timers, cap |-> Len(Backing)]
       ELSE [panic |-> FALSE, timers |-> Nils(m) \o kept,
             cap |-> AppendCap(m, m, Len(kept))]

\* dispatch_timers after the range loop
DispatchFinish ==
    /\ pc = "scan" /\ scan.i > scan.len
    /\ scan' = NoScan
    /\ LET r == Rebuilt
       IN IF r.panic
          THEN /\ Return("panic")
               /\ timers_spare' = Nils(Len(timers_spare))
               /\ UNCHANGED timers
          ELSE IF updated /\ sort_panics(r.timers)
          THEN /\ Return("panic")
               /\ timers' = r.timers
               /\ timers_spare' = Nils(r.cap - Len(r.timers))
          ELSE /\ result' = result
               /\ pc' = "timeout"
               /\ timers' = IF updated THEN sort_timers(r.timers, tm) ELSE r.timers
               /\ timers_spare' = Nils(r.cap - Len(r.timers))
    /\ UNCHANGED <<runs, envVars, controlling_term, loopVars, write_buf, tm,
                   timer_id_counter, screen_size, now, finalizer, armed, waitVars,
                   updated, remove, cur, parseVars, tty_out, hist>>

\* Run, lines 382-386: the timeout of the bounded wait
WaitTimeout ==
    /\ pc = "timeout"
    /\ IF Len(timers) = 0 \/ timers[1] = Nil
       THEN /\ Return("panic")
            /\ UNCHANGED <<timeout, hist>>
       ELSE /\ result' = result
            /\ hist' = [hist EXCEPT !.fired = <<>>]
            /\ timeout' = Max(0, tm[timers[1]].deadline - dnow)
            /\ pc' = "wait"
    /\ UNCHANGED <<runs, envVars, controlling_term, loopVars, write_buf, timerVars,
                   screen_size, now, finalizer, armed, wreg, dnow, ready, scanVars,
                   parseVars, tty_out>>

\* selector.Wait / selector.WaitForever returns without error
SelectWait(r) ==
    /\ pc = "wait"
    /\ "tty_w" \in r => wreg
    /\ ready' = r
    /\ pc' = IF r = {} THEN "top" ELSE "woke"
    /\ wreg' = FALSE /\ dnow' = 0 /\ timeout' = 0
    /\ UNCHANGED <<result, runs, envVars, controlling_term, loopVars, write_buf,
                   timerVars, screen_size, now, finalizer, armed, scanVars, parseVars,
                   tty_out, hist>>

\* selector.Wait / selector.WaitForever fails.  Only the WaitForever branch
\* tests err; after a failed bounded wait the ready count and the fd sets
\* are whatever the failed select left behind
WaitFails(r, zero) ==
    /\ pc = "wait"
    /\ IF timeout = Forever
       THEN /\ Return("select_err")
            /\ UNCHANGED ready
       ELSE /\ "tty_w" \in r => wreg
            /\ ready' = IF zero THEN {} ELSE r
            /\ result' = result
            /\ pc' = IF zero THEN "top" ELSE "woke"
    /\ wreg' = FALSE /\ dnow' = 0 /\ timeout' = 0
    /\ hist' = [hist EXCEPT !.wait_failed = TRUE]
    /\ UNCHANGED <<runs, envVars, controlling_term, loopVars, write_buf, timerVars,
                   screen_size, now, finalizer, armed, scanVars, parseVars, tty_out>>

\* Loop.write_to_tty for a write that did w and, when it wrote, took n bytes
write_to_tty_no_copy(buf, term, w, n) ==
    IF Len(buf) = 0 \/ ~term THEN [err |-> "nil", buf |-> buf, out |-> <<>>]
    ELSE LET r == write_ignoring_temporary_errors(w, n)
         IN IF r.err # "nil" THEN [err |-> r.err, buf |-> buf, out |-> <<>>]
            ELSE IF r.n <= 0 THEN [err |-> "nil", buf |-> buf, out |-> <<>>]
            ELSE [err |-> "nil", buf |-> Take(buf, Len(buf) - r.n),
                  out |-> Take(buf, r.n)]
write_to_tty(buf, term, w, n) ==
    IF Len(buf) = 0 \/ ~term THEN [err |-> "nil", buf |-> buf, out |-> <<>>]
    ELSE LET r == write_ignoring_temporary_errors(w, n)
         IN IF r.err # "nil" THEN [err |-> r.err, buf |-> buf, out |-> <<>>]
            ELSE IF r.n <= 0 THEN [err |-> "nil", buf |-> buf, out |-> <<>>]
            ELSE [err |-> "nil", buf |-> Drop(buf, r.n), out |-> Take(buf, r.n)]

\* Run, lines 396-407: drain the buffer when the terminal is writable
WritePhase(w, n) ==
    /\ pc = "woke"
    /\ IF Len(write_buf) > 0 /\ "tty_w" \in ready
       THEN /\ n \in 1..Len(write_buf)
            /\ LET r == write_to_tty(write_buf, controlling_term, w, n)
                   done == "OnWriteComplete" \in handlers /\ Len(r.buf) = 0
               IN /\ write_buf' = r.buf
                  /\ tty_out' = tty_out \o r.out
                  /\ IF r.err # "nil"
                     THEN /\ Return(r.err)
                          /\ hist' = [hist EXCEPT !.w = w,
                                        !.writes = IF tty_k > 0 THEN @ + 1 ELSE @]
                     ELSE /\ result' = result
                          /\ pc' = IF done THEN "OnWriteComplete" ELSE "read"
                          /\ hist' = [hist EXCEPT !.w = w,
                                        !.writes = IF tty_k > 0 THEN @ + 1 ELSE @,
                                        !.wc = IF tty_k > 0 /\ done THEN @ + 1 ELSE @]
       ELSE /\ pc' = "read"
            /\ hist' = [hist EXCEPT !.w = "none"]
            /\ UNCHANGED <<result, write_buf, tty_out>>
    /\ UNCHANGED <<runs, envVars, controlling_term, loopVars, timerVars, screen_size,
                   now, finalizer, armed, waitVars, scanVars, parseVars>>

\* OnWriteComplete returns
OnWriteCompleteReturn(err) ==
    /\ pc = "OnWriteComplete"
    /\ IF err THEN Return("cb_err") ELSE pc' = "read" /\ result' = result
    /\ UNCHANGED <<runs, envVars, controlling_term, loopVars, write_buf, timerVars,
                   screen_size, now, finalizer, armed, waitVars, scanVars, parseVars,
                   tty_out, hist>>

\* Run, lines 408-426: read the terminal when it is readable
ReadPhase(rd) ==
    /\ pc = "read"
    /\ hist' = [hist EXCEPT !.w = "none"]
    /\ IF "tty_r" \in ready
       THEN LET r == read_ignoring_temporary_errors(rd)
            IN IF r.err # "nil" THEN Return(r.err)
               ELSE /\ result' = result
                    /\ pc' = IF r.n > 0
                             THEN (IF "OnReceivedData" \in handlers
                                   THEN "OnReceivedData" ELSE "parse")
                             ELSE "sig"
       ELSE /\ pc' = "sig"
            /\ result' = result
    /\ ntok' = 0
    /\ UNCHANGED <<runs, envVars, controlling_term, loopVars, write_buf, timerVars,
                   screen_size, now, finalizer, armed, waitVars, scanVars, ev, nsig,
                   tty_out>>

\* OnReceivedData returns
OnReceivedDataReturn(err) ==
    /\ pc = "OnReceivedData"
    /\ IF err THEN Return("cb_err") ELSE pc' = "parse" /\ result' = result
    /\ UNCHANGED <<runs, envVars, controlling_term, loopVars, write_buf, timerVars,
                   screen_size, now, finalizer, armed, waitVars, scanVars, parseVars,
                   tty_out, hist>>

\* Loop.on_SIGINT / on_SIGTERM / on_SIGHUP
on_SIGINT == /\ death_signal' = "SIGINT"
             /\ keep_going' = FALSE
             /\ UNCHANGED flush_write_buf
on_SIGTERM == /\ death_signal' = "SIGTERM"
              /\ keep_going' = FALSE
              /\ UNCHANGED flush_write_buf
on_SIGHUP == /\ flush_write_buf' = FALSE
             /\ death_signal' = "SIGHUP"
             /\ keep_going' = FALSE

\* KeyEvent.MatchesPressOrRepeat and KeyEvent.Text
MatchesPressOrRepeat(e, spec) == e.key = spec /\ e.type \in {"press", "repeat"}
Text(e) == IF e.key = "a" /\ e.type # "release" THEN "a" ELSE ""

\* handle_key_event for event e: what it does when OnKeyEvent is set or not
\* (cb), returned an error or not (err) and set e.Handled or not (handled)
handle_key_event_unconditional(e, cb, err, handled) ==
    IF cb /\ err THEN "err"
    ELSE IF MatchesPressOrRepeat(e, "ctrl+c") THEN "on_SIGINT"
    ELSE IF MatchesPressOrRepeat(e, "ctrl+z") THEN "on_SIGTSTP"
    ELSE IF Text(e) # "" /\ "OnText" \in handlers THEN "OnText"
    ELSE "nil"
handle_key_event(e, cb, err, handled) ==
    IF cb /\ err THEN "err"
    ELSE IF cb /\ handled THEN "handled"
    ELSE IF MatchesPressOrRepeat(e, "ctrl+c") THEN "on_SIGINT"
    ELSE IF MatchesPressOrRepeat(e, "ctrl+z") THEN "on_SIGTSTP"
    ELSE IF Text(e) # "" /\ "OnText" \in handlers THEN "OnText"
    ELSE "nil"

\* the effect of handle_key_event on the loop
KeyEffect(e, what, handled) ==
    /\ ev' = [e EXCEPT !.Handled = handled \/ what \in {"on_SIGINT", "on_SIGTSTP"}]
    /\ IF what = "on_SIGINT" THEN on_SIGINT
       ELSE UNCHANGED <<keep_going, death_signal, flush_write_buf>>
    /\ IF what = "err" THEN Return("cb_err")
       ELSE /\ result' = result
            /\ pc' = IF what = "OnText" THEN "OnText" ELSE "parse"

\* the parser decodes a CSI that is a key event: handle_csi and
\* handle_key_event up to the call of OnKeyEvent
ParseKey(e) ==
    /\ pc = "parse" /\ ntok < MaxTokens
    /\ ntok' = ntok + 1
    /\ hist' = [hist EXCEPT !.app_handled = FALSE, !.key_cb = FALSE, !.dcs = {}, !.rc_calls = 0,
                  !.death = IF "OnKeyEvent" \notin handlers
                               /\ handle_key_event(e, FALSE, FALSE, FALSE) = "on_SIGINT"
                            THEN "SIGINT" ELSE @]
    /\ IF "OnKeyEvent" \in handlers
       THEN /\ ev' = e
            /\ pc' = "OnKeyEvent"
            /\ UNCHANGED <<result, keep_going, death_signal, flush_write_buf>>
       ELSE KeyEffect(e, handle_key_event(e, FALSE, FALSE, FALSE), FALSE)
    /\ UNCHANGED <<runs, envVars, controlling_term, exit_code, write_buf,
                   timerVars, screen_size, now, finalizer, armed, waitVars, scanVars,
                   nsig, tty_out>>

\* OnKeyEvent returns, having set ev.Handled or not: handle_key_event,
\* lines 130-148
OnKeyEventReturn(handled, err) ==
    /\ pc = "OnKeyEvent"
    /\ hist' = [hist EXCEPT !.app_handled = handled, !.key_cb = TRUE, !.dcs = {},
                  !.rc_calls = 0,
                  !.death = IF handle_key_event(ev, TRUE, err, handled) = "on_SIGINT"
                            THEN "SIGINT" ELSE @]
    /\ KeyEffect(ev, handle_key_event(ev, TRUE, err, handled), handled)
    /\ UNCHANGED <<runs, envVars, controlling_term, exit_code, write_buf, timerVars,
                   screen_size, now, finalizer, armed, waitVars, scanVars, ntok, nsig,
                   tty_out>>

\* handle_dcs: whether OnRCResponse is called for payload raw when it is set
\* or not (cb), and with what
handle_dcs_whole_payload(raw, cb) ==
    IF cb /\ IsPrefix(Marker, raw) THEN [call |-> TRUE, payload |-> raw]
    ELSE [call |-> FALSE, payload |-> <<>>]
handle_dcs(raw, cb) ==
    IF cb /\ IsPrefix(Marker, raw)
    THEN [call |-> TRUE, payload |-> Drop(raw, Len(Marker))]
    ELSE [call |-> FALSE, payload |-> <<>>]

\* the parser decodes a DCS: handle_dcs
ParseDCS(raw) ==
    /\ pc = "parse" /\ ntok < MaxTokens
    /\ ntok' = ntok + 1
    /\ ev' = NoEvent
    /\ LET r == handle_dcs(raw, "OnRCResponse" \in handlers)
       IN /\ pc' = IF r.call THEN "OnRCResponse" ELSE pc
          /\ hist' = [hist EXCEPT !.rc = r.payload, !.dcs = {raw},
                                  !.rc_calls = IF r.call THEN 1 ELSE 0,
                                  !.app_handled = FALSE, !.key_cb = FALSE]
    /\ UNCHANGED <<result, runs, envVars, controlling_term, loopVars, write_buf,
                   timerVars, screen_size, now, finalizer, armed, waitVars, scanVars,
                   nsig, tty_out>>

\* the parser decodes a character: handle_rune
ParseRune ==
    /\ pc = "parse" /\ ntok < MaxTokens
    /\ ntok' = ntok + 1
    /\ ev' = NoEvent
    /\ pc' = IF "OnText" \in handlers THEN "OnText" ELSE pc
    /\ hist' = [hist EXCEPT !.app_handled = FALSE, !.key_cb = FALSE,
                  !.dcs = {}, !.rc_calls = 0]
    /\ UNCHANGED <<result, runs, envVars, controlling_term, loopVars, write_buf,
                   timerVars, screen_size, now, finalizer, armed, waitVars, scanVars,
                   nsig, tty_out>>

\* the parser decodes an OSC, APC, SOS or PM (handle_osc, handle_apc,
\* handle_sos, handle_pm), or a CSI that is no key event
ParseOther ==
    /\ pc = "parse" /\ ntok < MaxTokens
    /\ ntok' = ntok + 1
    /\ ev' = NoEvent
    /\ hist' = [hist EXCEPT !.app_handled = FALSE, !.key_cb = FALSE,
                  !.dcs = {}, !.rc_calls = 0]
    /\ UNCHANGED <<pc, result, runs, envVars, controlling_term, loopVars, write_buf,
                   timerVars, screen_size, now, finalizer, armed, waitVars, scanVars,
                   nsig, tty_out>>

\* Parse returns nil
ParseDone ==
    /\ pc = "parse"
    /\ pc' = "sig"
    /\ ev' = NoEvent /\ ntok' = 0
    /\ hist' = [hist EXCEPT !.app_handled = FALSE, !.key_cb = FALSE,
                  !.dcs = {}, !.rc_calls = 0]
    /\ UNCHANGED <<result, runs, envVars, controlling_term, loopVars, write_buf,
                   timerVars, screen_size, now, finalizer, armed, waitVars, scanVars,
                   nsig, tty_out>>

\* OnText / OnRCResponse return (both are called from inside Parse)
ParserCallbackReturn(err) ==
    /\ pc \in {"OnText", "OnRCResponse"}
    /\ hist' = [hist EXCEPT !.rc = <<>>, !.dcs = {}, !.rc_calls = 0]
    /\ IF err THEN Return("cb_err") ELSE pc' = "parse" /\ result' = result
    /\ UNCHANGED <<runs, envVars, controlling_term, loopVars, write_buf, timerVars,
                   screen_size, now, finalizer, armed, waitVars, scanVars, parseVars,
                   tty_out>>

\* Run, lines 427-433: the signal pipe is readable or not
SigPhase ==
    /\ pc = "sig"
    /\ pc' = IF "sig" \in ready THEN "signals" ELSE "top"
    /\ nsig' = 0
    /\ ready' = {}
    /\ hist' = [hist EXCEPT !.sigs = <<>>]
    /\ UNCHANGED <<result, runs, envVars, controlling_term, loopVars, write_buf,
                   timerVars, screen_size, now, finalizer, armed, wreg, dnow, timeout,
                   scanVars, ev, ntok, tty_out>>

\* Loop.update_screen_size: its error, "nil" when it gets as far as GetSize
update_screen_size(term) == IF term THEN "size_err" ELSE "nil"

\* Loop.ScreenSize, called by the application.  Without a terminal
\* update_screen_size calls GetSize on a nil *tty.Term, which panics or
\* fails (nilterm)
ScreenSize(nilterm) ==
    /\ pc \in AppPCs
    /\ IF screen_size.updated
       THEN /\ hist' = [hist EXCEPT !.ss = "cached"]
            /\ UNCHANGED <<pc, result>>
       ELSE IF update_screen_size(controlling_term) # "nil" \/ nilterm = "err"
       THEN /\ hist' = [hist EXCEPT !.ss = "err"]
            /\ UNCHANGED <<pc, result>>
       ELSE /\ hist' = [hist EXCEPT !.ss = "err"]
            /\ pc' = "crashed"
            /\ result' = "panic"
    /\ UNCHANGED <<runs, envVars, controlling_term, loopVars, write_buf, timerVars,
                   screen_size, now, finalizer, armed, waitVars, scanVars, parseVars,
                   tty_out>>

\* read_signals hands one record to its handler: on_SIGINT, on_SIGTERM,
\* on_SIGHUP, on_SIGWINCH, on_SIGTSTP, on_SIGPIPE
HandleSignal(sig) ==
    /\ pc = "signals" /\ nsig < MaxSignals
    /\ nsig' = nsig + 1
    /\ CASE sig = "SIGINT" ->
              /\ on_SIGINT
              /\ hist' = [hist EXCEPT !.sigs = Append(@, sig), !.term_sig = TRUE,
                                      !.death = sig]
              /\ UNCHANGED <<pc, result, screen_size>>
         [] sig = "SIGTERM" ->
              /\ on_SIGTERM
              /\ hist' = [hist EXCEPT !.sigs = Append(@, sig), !.term_sig = TRUE,
                                      !.death = sig]
              /\ UNCHANGED <<pc, result, screen_size>>
         [] sig = "SIGHUP" ->
              /\ on_SIGHUP
              /\ hist' = [hist EXCEPT !.sigs = Append(@, sig), !.term_sig = TRUE,
                                      !.death = sig]
              /\ UNCHANGED <<pc, result, screen_size>>
         [] sig = "SIGWINCH" ->
              /\ screen_size' = [screen_size EXCEPT !.updated = FALSE]
              /\ UNCHANGED <<keep_going, flush_write_buf, death_signal>>
              /\ IF "OnResize" \in handlers
                 THEN LET err == update_screen_size(controlling_term)
                      IN IF err # "nil"
                         THEN /\ Return(err)
                              /\ hist' = [hist EXCEPT !.sigs = Append(@, sig)]
                         ELSE /\ pc' = "OnResize"
                              /\ result' = result
                              /\ hist' = [hist EXCEPT !.sigs = Append(@, sig),
                                                      !.resizes = @ + 1]
                 ELSE /\ hist' = [hist EXCEPT !.sigs = Append(@, sig)]
                      /\ UNCHANGED <<pc, result>>
         [] OTHER ->
              /\ hist' = [hist EXCEPT !.sigs = Append(@, sig)]
              /\ UNCHANGED <<pc, result, screen_size, keep_going, flush_write_buf,
                             death_signal>>
    /\ UNCHANGED <<runs, envVars, controlling_term, exit_code, write_buf, timerVars,
                   now, finalizer, armed, waitVars, scanVars, ev, ntok, tty_out>>

\* read_signals returns nil
SignalsDone ==
    /\ pc = "signals" /\ nsig >= 1
    /\ pc' = "top"
    /\ nsig' = 0
    /\ hist' = [hist EXCEPT !.sigs = <<>>]
    /\ UNCHANGED <<result, runs, envVars, controlling_term, loopVars, write_buf,
                   timerVars, screen_size, now, finalizer, armed, waitVars, scanVars,
                   ev, ntok, tty_out>>

\* Loop.flush, which stops at an empty buffer, at its deadline or at a
\* write error: n bytes of the buffer reach the terminal
flush(buf, term, n) ==
    IF ~term THEN [buf |-> buf, out |-> <<>>]
    ELSE [buf |-> Drop(buf, n), out |-> Take(buf, n)]

\* lines 356-360: what the shutdown defer queues into the cleared buffer
shutdown_queue_codes_first(fin) ==
    queue_write_to_tty(queue_write_to_tty(<<>>, ResetStateEscapeCodes), fin)
shutdown_queue(fin) ==
    queue_write_to_tty(IF fin # <<>> THEN queue_write_to_tty(<<>>, fin) ELSE <<>>,
                       ResetStateEscapeCodes)

\* the deferred function of lines 352-362
Shutdown(n1, n2) ==
    /\ pc = "shutdown"
    /\ n1 \in 0..(IF flush_write_buf THEN Len(write_buf) ELSE 0)
    /\ LET f1 == IF flush_write_buf THEN flush(write_buf, controlling_term, n1)
                 ELSE [buf |-> write_buf, out |-> <<>>]
           b2 == shutdown_queue(finalizer)
       IN /\ n2 \in 0..Len(b2)
          /\ LET f2 == flush(b2, controlling_term, n2)
             IN /\ write_buf' = f2.buf
                /\ tty_out' = tty_out \o f1.out \o f2.out
    /\ hist' = [hist EXCEPT !.shutdowns = @ + 1, !.queued = <<>>]
    /\ pc' = "restore"
    /\ UNCHANGED <<result, runs, envVars, controlling_term, loopVars, timerVars,
                   screen_size, now, finalizer, armed, waitVars, scanVars, parseVars>>

\* the deferred functions of lines 328-331, 311 and 304-307; Run has
\* returned, or the process dies of the panic
Restore ==
    /\ pc = "restore"
    /\ controlling_term' = FALSE
    /\ pc' = IF result = "panic" THEN "crashed" ELSE "idle"
    /\ hist' = [hist EXCEPT !.restores = @ + 1, !.fired = <<>>, !.sigs = <<>>,
                            !.rc = <<>>, !.app_handled = FALSE, !.key_cb = FALSE,
                            !.dcs = {}, !.rc_calls = 0]
    /\ armed' = FALSE /\ wreg' = FALSE /\ dnow' = 0 /\ timeout' = 0 /\ ready' = {}
    /\ scan' = NoScan /\ updated' = FALSE /\ remove' = {} /\ cur' = Nil
    /\ ev' = NoEvent /\ ntok' = 0 /\ nsig' = 0
    /\ UNCHANGED <<result, runs, envVars, loopVars, write_buf, timerVars, screen_size,
                   now, finalizer, tty_out>>

\* --------------------------------------------------------- specifications
\* one Run with terminal input, output and signals; the callbacks call Quit
\* and QueueWriteString
Next ==
    \/ \E c \in QuitCodes : pc \in CallbackPCs /\ Quit(c)
    \/ \E d \in AppData : pc \in CallbackPCs /\ QueueWriteString(d)
    \/ runs = 0 /\ RunBootFail
    \/ \E rawok \in BOOLEAN : runs = 0 /\ RunBoot(rawok)
    \/ \E fin \in Finalizers, err \in BOOLEAN : OnInitializeReturn(fin, err)
    \/ LoopTop
    \/ \E r \in FdSets : SelectWait(r)
    \/ WaitFails({}, TRUE)
    \/ \E w \in WriteResults, n \in 1..(MaxOut + 2) : WritePhase(w, n)
    \/ \E err \in BOOLEAN : OnWriteCompleteReturn(err)
    \/ \E rd \in ReadResults : ReadPhase(rd)
    \/ \E err \in BOOLEAN : OnReceivedDataReturn(err)
    \/ \E e \in KeyEvents : ParseKey(e)
    \/ \E handled \in BOOLEAN, err \in BOOLEAN : OnKeyEventReturn(handled, err)
    \/ \E raw \in DcsPayloads : ParseDCS(raw)
    \/ ParseRune
    \/ ParseOther
    \/ ParseDone
    \/ \E err \in BOOLEAN : ParserCallbackReturn(err)
    \/ SigPhase
    \/ \E sig \in Signals : HandleSignal(sig)
    \/ SignalsDone
    \/ \E n1 \in 0..(MaxOut + 2), n2 \in 0..2 : Shutdown(n1, n2)
    \/ Restore

Spec == Init /\ [][Next]_vars

\* one Run with timers: no callback field is set, nothing is ever ready, the
\* clock advances, and the timer callbacks call Quit, AddTimer and RemoveTimer
InitTimers == Init /\ handlers = {}

NextTimers ==
    \/ \E c \in QuitCodes : pc = "timer_cb" /\ Quit(c)
    \/ \E iv \in Intervals, rp \in BOOLEAN : AddTimer(iv, rp)
    \/ \E id \in 1..MaxTimers : RemoveTimer(id)
    \/ Tick
    \/ runs = 0 /\ RunBoot(TRUE)
    \/ LoopTop
    \/ DispatchScan
    \/ \E err \in BOOLEAN : TimerCbReturn(err)
    \/ DispatchFinish
    \/ WaitTimeout
    \/ SelectWait({})
    \/ \E n1 \in 0..2, n2 \in 0..1 : Shutdown(n1, n2)
    \/ Restore

SpecTimers == InitTimers /\ [][NextTimers]_vars

\* AddTimer and RemoveTimer on a loop that is not running
NextTimerOps ==
    \/ \E iv \in Intervals, rp \in BOOLEAN : AddTimer(iv, rp)
    \/ \E id \in 1..MaxTimers : RemoveTimer(id)
    \/ Tick

SpecTimerOps == InitTimers /\ [][NextTimerOps]_vars

\* one Run that drains the buffer through a terminal that accepts tty_k
\* bytes per write; the application queued before Run and only
\* OnWriteComplete is set
InitDrain ==
    /\ pc = "idle" /\ result = "none" /\ runs = 0
    /\ handlers = {"OnWriteComplete"}
    /\ tty_k \in 1..MaxDrain
    /\ controlling_term = FALSE
    /\ keep_going = FALSE /\ flush_write_buf = FALSE
    /\ death_signal = SIGNULL /\ exit_code = 0
    /\ write_buf \in {Take(DrainData, n) : n \in 0..(MaxDrain - Len(SetStateEscapeCodes))}
    /\ timers = <<>> /\ timers_spare = <<>> /\ tm = <<>> /\ timer_id_counter = 0
    /\ screen_size = [updated |-> FALSE, cells |-> 0]
    /\ now = 0
    /\ finalizer = <<>> /\ armed = FALSE /\ wreg = FALSE /\ dnow = 0
    /\ timeout = 0 /\ ready = {}
    /\ scan = NoScan /\ updated = FALSE /\ remove = {} /\ cur = Nil
    /\ ev = NoEvent /\ ntok = 0 /\ nsig = 0
    /\ tty_out = <<>>
    /\ hist = HistInit

NextDrain ==
    \/ runs = 0 /\ RunBoot(TRUE)
    \/ LoopTop
    \/ \E r \in SUBSET {"tty_w", "sig"} : SelectWait(r)
    \/ WritePhase("n", Min(tty_k, Len(write_buf)))
    \/ OnWriteCompleteReturn(FALSE)
    \/ ReadPhase("data")
    \/ SigPhase
    \/ HandleSignal("SIGTSTP")
    \/ SignalsDone

SpecDrain == InitDrain /\ [][NextDrain]_vars

\* one Run with timers added before it: the timer callbacks queue output and
\* call Quit, the terminal becomes writable or nothing becomes ready, and
\* the readiness wait may fail
NextTimerWait ==
    \/ \E iv \in Intervals, rp \in BOOLEAN : pc = "idle" /\ AddTimer(iv, rp)
    \/ Tick
    \/ runs = 0 /\ RunBoot(TRUE)
    \/ \E c \in QuitCodes : pc = "timer_cb" /\ Quit(c)
    \/ \E d \in AppData : pc = "timer_cb" /\ QueueWriteString(d)
    \/ LoopTop
    \/ DispatchScan
    \/ TimerCbReturn(FALSE)
    \/ DispatchFinish
    \/ WaitTimeout
    \/ \E r \in SUBSET {"tty_w"} : SelectWait(r)
    \/ \E r \in SUBSET {"tty_w"}, zero \in BOOLEAN : WaitFails(r, zero)
    \/ \E n \in 1..MaxBuf : WritePhase("n", n)
    \/ ReadPhase("data")
    \/ SigPhase
    \/ \E n1 \in 0..MaxBuf, n2 \in 0..1 : Shutdown(n1, n2)
    \/ Restore

SpecTimerWait == InitTimers /\ [][NextTimerWait]_vars

\* Run called again and again on one instance: boot failures, OnInitialize,
\* Quit, terminal end of input and signals
NextRuns ==
    \/ \E c \in QuitCodes : pc \in CallbackPCs /\ Quit(c)
    \/ \E nt \in {"panic", "err"} : pc \in CallbackPCs /\ ScreenSize(nt)
    \/ RunBootFail
    \/ \E rawok \in BOOLEAN : RunBoot(rawok)
    \/ \E fin \in Finalizers, err \in BOOLEAN : OnInitializeReturn(fin, err)
    \/ LoopTop
    \/ \E r \in SUBSET {"tty_r", "sig"} : SelectWait(r)
    \/ WritePhase("n", 1)
    \/ ReadPhase("zero")
    \/ SigPhase
    \/ \E sig \in Signals : HandleSignal(sig)
    \/ SignalsDone
    \/ \E n1 \in 0..MaxBuf, n2 \in 0..2 : Shutdown(n1, n2)
    \/ Restore

SpecRuns == Init /\ [][NextRuns]_vars

TypeOK ==
    /\ pc \in AppPCs \cup {"top", "scan", "timeout", "wait", "woke", "read", "parse",
                           "sig", "signals", "shutdown", "restore", "crashed"}
    /\ Len(write_buf) <= MaxBuf + 3 * MaxRuns

\* ------------------------------------------------------------- properties
Returned == pc = "idle" /\ runs > 0
DeathSignals == {"SIGINT", "SIGTERM", "SIGHUP"}
CeilDiv(n, k) == (n + k - 1) \div k
CtrlC(e) == MatchesPressOrRepeat(e, "ctrl+c")
Live == Range(timers) \ {Nil}
NearestDeadline == CHOOSE d \in {tm[id].deadline : id \in Live} :
                       \A id \in Live : d <= tm[id].deadline

\* C11: once a readiness wait of the main loop has failed, Run does nothing
\* but return the error of the wait: no write, read or signal drain follows
C11_WaitFailureFatal ==
    hist.wait_failed => (result = "select_err" /\ pc \in Returning \cup {"idle"})

\* C12: a Run whose boot failed (pipe, terminal or raw mode) calls no
\* application callback and returns an error
C12_BootFailure ==
    (runs > 0 /\ ~hist.raw) =>
        /\ pc \notin CallbackPCs
        /\ Returned => result = "boot_err"

\* C13: when a Run has returned, the death signal is NONE unless this Run
\* recorded one, and the exit code is 0 unless Quit was called in this Run
C13_TransientReset ==
    Returned =>
        /\ hist.death = SIGNULL => death_signal = SIGNULL
        /\ hist.quit = -1 => exit_code = 0

\* C14: a ScreenSize() made while Run holds the terminal succeeds, from the
\* cache or by recomputing, and leaves the cache fresh
C14_ScreenSize ==
    (controlling_term /\ hist.ss # "none") =>
        (hist.ss \in {"cached", "fresh"} /\ screen_size.updated)

\* C15: the shutdown writes to the terminal, in this order, a prefix of the
\* pending output (nothing after a HUP), then a prefix of the finalizer
\* followed by the exit-state escape codes; it runs while the terminal is
\* held and before the terminal is restored, and nothing is written once
\* the terminal is restored and released
C15_ShutdownOrder ==
    /\ [][/\ (pc = "shutdown" /\ pc' # pc) =>
              /\ controlling_term /\ controlling_term' /\ pc' = "restore"
              /\ \E n1 \in 0..Len(write_buf),
                    n2 \in 0..Len(finalizer \o ResetStateEscapeCodes) :
                     /\ ~flush_write_buf => n1 = 0
                     /\ tty_out' = tty_out \o Take(write_buf, n1)
                                      \o Take(finalizer \o ResetStateEscapeCodes, n2)
          /\ (pc = "restore" /\ pc' # pc) => (tty_out' = tty_out /\ ~controlling_term')
          /\ ~controlling_term => tty_out' = tty_out]_vars
    /\ []((pc = "restore" /\ armed) => hist.shutdowns = 1)
C15_Witness ==
    /\ Returned /\ ~controlling_term /\ hist.shutdowns = 1
    /\ finalizer = <<"F">>
    /\ tty_out = SetStateEscapeCodes \o finalizer \o ResetStateEscapeCodes

\* C16: from the start of Run to its shutdown, the bytes written to the
\* terminal followed by the bytes in the buffer are the bytes queued, in
\* the order they were queued
C16_Fifo ==
    (hist.raw /\ hist.shutdowns = 0) => tty_out \o write_buf = hist.queued
C16_Witness ==
    /\ hist.raw /\ hist.shutdowns = 0 /\ pc = "read"
    /\ hist.w = "n"
    /\ tty_out = <<"S">>
    /\ write_buf = <<"T", "a">>

\* C17: a DCS payload starting with "@kitty-cmd" leads to one call of
\* OnRCResponse, when it is set, with the bytes after the marker; any other
\* payload, and any payload when OnRCResponse is not set, leads to no call
\* and no error
C17_RCResponse ==
    \A raw \in hist.dcs :
        IF /\ "OnRCResponse" \in handlers
           /\ Len(raw) >= Len(Marker)
           /\ \A i \in 1..Len(Marker) : raw[i] = Marker[i]
        THEN /\ pc = "OnRCResponse" /\ hist.rc_calls = 1
             /\ Marker \o hist.rc = raw
        ELSE /\ pc = "parse" /\ hist.rc_calls = 0
             /\ result = "none"
C17_Witness ==
    /\ pc = "OnRCResponse"
    /\ hist.dcs = {Marker \o <<"H", "E", "L", "L", "O">>}
    /\ hist.rc = <<"H", "E", "L", "L", "O">>
C17_WitnessNoCall ==
    /\ pc = "parse" /\ "OnRCResponse" \in handlers
    /\ hist.dcs = {<<"x">> \o Marker}

\* C18: when Run enters a readiness wait, write interest in the terminal
\* is registered exactly when the buffer holds output
C18_WriteInterest ==
    pc = "wait" => (wreg <=> Len(write_buf) > 0)

\* C19: in one dispatch no timer is called twice, and when dispatch_timers
\* returns the collection has no empty entry, holds no timer twice and holds
\* no one-shot timer that was called
C19_ScanStable ==
    /\ \A id \in Range(hist.fired) : Count(hist.fired, id) = 1
    /\ pc = "timeout" =>
          /\ Nil \notin Range(timers)
          /\ \A i, j \in 1..Len(timers) : timers[i] = timers[j] => i = j
          /\ \A id \in Range(hist.fired) : ~tm[id].repeats => id \notin Range(timers)

\* C20: the loop holds the terminal exactly while a Run that acquired it is
\* under way; the handle is given up only by the restore of that Run, which
\* happens once on every path, so that the handle is nil when Run has
\* returned
C20_OneSession ==
    /\ [](/\ pc = "idle" => ~controlling_term
          /\ (runs > 0 /\ pc \notin {"idle", "crashed"}) => controlling_term
          /\ hist.restores <= 1
          /\ (Returned /\ result # "boot_err") => hist.restores = 1)
    /\ [][/\ (controlling_term /\ ~controlling_term') => pc = "restore"
          /\ (~controlling_term /\ controlling_term') => pc = "idle"]_vars
C20_Witness ==
    /\ Returned /\ runs = 2
    /\ ~hist.raw /\ result = "nil"
    /\ hist.restores = 1 /\ ~controlling_term

\* C1: when a callback of this Run called Quit(7) and no callback returned
\* an error, Run went through the shutdown sequence, returned nil, and
\* ExitCode() is 7 afterwards
C1_QuitExitCode ==
    (Returned /\ hist.quit = 7 /\ result # "cb_err") =>
        (hist.shutdowns = 1 /\ result = "nil" /\ exit_code = 7)

\* C2: a Run that entered raw mode has run the shutdown sequence exactly
\* once when it returns, whatever made it return
C2_ShutdownOnce ==
    /\ hist.shutdowns <= 1
    /\ (Returned /\ hist.raw) => (hist.shutdowns = 1 /\ hist.restores = 1)

\* C3: within one dispatch a one-shot timer is called at most once, and when
\* dispatch_timers returns every one-shot timer it called is gone from the
\* collection, while every repeating timer it called has a deadline at
\* least the dispatch time plus its interval and was not dropped
C3_TimerDispatch ==
    /\ [](\A id \in Range(hist.fired) :
            /\ ~tm[id].repeats => Count(hist.fired, id) = 1
            /\ (pc = "timeout" /\ ~tm[id].repeats) => id \notin Range(timers)
            /\ (pc = "timeout" /\ tm[id].repeats) =>
                   tm[id].deadline >= dnow + tm[id].interval)
    /\ [][(pc = "scan" /\ pc' # "scan") =>
            \A id \in Range(hist.fired) :
                (tm[id].repeats /\ id \in Range(timers)) => id \in Range(timers')]_vars

\* C4: after the dispatch of an iteration that started with a timer, Run
\* goes on to wait, for the smallest remaining deadline minus now floored at
\* zero, or without bound when no timer remains
C4_WaitTimeout ==
    [][(pc = "timeout" /\ pc' # "timeout") =>
          /\ pc' = "wait"
          /\ timeout' = IF Live = {} THEN Forever
                        ELSE Max(0, NearestDeadline - dnow)]_vars

\* C5: after every AddTimer and RemoveTimer the collection is sorted
\* ascending by deadline and holds no id twice, and every AddTimer returns
\* an id greater than every id returned before, in the collection or not
C5_SortedUniqueIds ==
    /\ [](/\ Sorted(timers, tm)
          /\ \A i, j \in 1..Len(timers) : timers[i] = timers[j] => i = j
          /\ \A i \in 1..Len(timers) : timers[i] \in 1..timer_id_counter)
    /\ [][timer_id_counter' # timer_id_counter =>
            /\ timer_id_counter' > timer_id_counter
            /\ timer_id_counter' \in Range(timers')
            /\ timer_id_counter' \notin Range(timers)]_vars
C5_Witness ==
    /\ Len(timers) >= 2
    /\ timers[1] > timers[2]
    /\ timer_id_counter > Len(timers)

\* C6: with N bytes in the buffer at loop entry and a terminal taking k < N
\* bytes per write, the bytes written followed by the bytes still buffered
\* are always the N bytes, every write but the last takes k bytes, so that
\* the buffer is empty after ceil(N/k) writes, and OnWriteComplete has been
\* called once when the buffer is empty and not at all before
C6_Drain ==
    (runs > 0 /\ tty_k < Len(hist.buf0)) =>
        /\ tty_out \o write_buf = hist.buf0
        /\ hist.writes = CeilDiv(Len(tty_out), tty_k)
        /\ write_buf = <<>> => hist.writes = CeilDiv(Len(hist.buf0), tty_k)
        /\ hist.wc = IF write_buf = <<>> THEN 1 ELSE 0
        /\ pc = "OnWriteComplete" => write_buf = <<>>
C6_Witness ==
    /\ runs > 0 /\ tty_k = 2 /\ Len(hist.buf0) = 5
    /\ write_buf = <<>> /\ tty_out = hist.buf0
    /\ hist.writes = 3 /\ hist.wc = 1

\* C7: in the main loop a write of zero bytes without error makes Run
\* return io.EOF with the buffer as it was, and a write failing with EINTR,
\* EAGAIN or EWOULDBLOCK leaves the buffer as it was and lets the iteration
\* go on without error
C7_WriteAttempt == pc = "woke" /\ Len(write_buf) > 0 /\ "tty_w" \in ready
C7_ZeroWrite ==
    /\ [][(C7_WriteAttempt /\ pc' # pc) =>
            /\ hist'.w = "zero" =>
                  /\ result' = "EOF" /\ pc' \in Returning
                  /\ write_buf' = write_buf /\ tty_out' = tty_out
            /\ hist'.w \in Transient =>
                  /\ result' = "none" /\ pc' = "read"
                  /\ write_buf' = write_buf /\ tty_out' = tty_out]_vars
    /\ []((hist.w = "zero" /\ pc # "woke") =>
             (result = "EOF" /\ pc \in Returning \cup {"idle"}))
C7_Witness == Returned /\ hist.w = "zero" /\ result = "EOF" /\ hist.shutdowns = 1

\* C8: once an INT, TERM or HUP record was handled keep_going is false, a
\* death signal is recorded, and Run returns without error
C8_DeathSignals ==
    hist.term_sig =>
        /\ ~keep_going
        /\ death_signal \in DeathSignals
        /\ result \in {"none", "nil"}
        /\ Returned => result = "nil"

\* C9: when OnResize is set, the SIGWINCH records of one read of the signal
\* pipe lead to one call of OnResize and the loop keeps running
C9_ResizeOnce ==
    ("OnResize" \in handlers /\ "SIGWINCH" \in Range(hist.sigs)) =>
        /\ hist.resizes = 1
        /\ result = "none"
        /\ pc \notin Returning

\* C10: for a ctrl+c press or repeat, OnKeyEvent returning nil with the
\* event handled leaves keep_going and the death signal alone; returning
\* nil with the event not handled, or no OnKeyEvent being set, clears
\* keep_going and records SIGINT; the bindings have no effect before
\* OnKeyEvent returned nor when it returned an error
C10_CtrlC ==
    [][/\ (pc = "OnKeyEvent" /\ pc' # pc /\ CtrlC(ev)) =>
            IF pc' \in Returning \/ hist'.app_handled
            THEN UNCHANGED <<keep_going, death_signal>>
            ELSE ~keep_going' /\ death_signal' = "SIGINT"
       /\ (pc = "parse" /\ pc' = "OnKeyEvent") => UNCHANGED <<keep_going, death_signal>>
       /\ (pc = "parse" /\ "OnKeyEvent" \notin handlers /\ ev' # NoEvent /\ CtrlC(ev')) =>
            ~keep_going' /\ death_signal' = "SIGINT"]_vars
C10_Witness ==
    /\ pc = "parse" /\ CtrlC(ev)
    /\ hist.key_cb /\ hist.app_handled
    /\ keep_going /\ death_signal = SIGNULL

====
